---------------------------- MODULE Spec2Model ----------------------------
(***************************************************************************)
(* Two-tier render cache of the Markdown viewer extension:                 *)
(* ExtensionCacheManager (src/src/renderer.js, lines 187-840).             *)
(*                                                                         *)
(* L1 is the in-memory Map memoryCache with the recency list               *)
(* memoryAccessOrder; L2 is the IndexedDB object store renderCache.        *)
(* JavaScript runs one task at a time, so every action below is one task:  *)
(* the synchronous part of a call up to its first IndexedDB request, the   *)
(* callback of a finished IndexedDB transaction, or a timer callback.      *)
(* Every transaction of the manager has the single store as its scope, so  *)
(* IndexedDB runs them one after another in the order of their creation:   *)
(* queue is that order, and its head is the transaction that runs next.    *)
(***************************************************************************)
EXTENDS Naturals, Sequences, FiniteSets

VARIABLES
    db,                 \* outcome of initDB: "open" or "failed"
    maxItems,           \* this.maxItems
    memoryMaxItems,     \* this.memoryMaxItems
    memoryCache,        \* this.memoryCache: key -> value
    memoryAccessOrder,  \* this.memoryAccessOrder: keys, oldest first
    store,              \* object store renderCache: key -> record
    queue,              \* IndexedDB transactions created and not yet run
    touchTimers,        \* armed setTimeout(0) callbacks of get: the key, and
                        \* the clock at the read (history)
    cleanupTimer,       \* the armed 10 ms timers of _scheduleAsyncCleanup:
                        \* for each the clock when it was armed
    cleanupScheduled,   \* this.cleanupScheduled
    cleanupInProgress,  \* this.cleanupInProgress
    cleanupPolls,       \* calls of cleanup() in their 50 ms polling loop
    cleanupAwaited,     \* a call of cleanup() awaits the running pass
    now,                \* last value read from Date.now()
    opsIssued,          \* number of calls made by the callers so far
    ret,                \* what the last task returned to a caller (history)
    recency,            \* keys in the order of their last successful set or
                        \* get (history)
    generated,          \* the calls of generateKey made so far, with results
    deletePromises,     \* cache-manager.js: for each set whose cleanup()
                        \* awaits Promise.all(deletePromises), the item to
                        \* put, the keys selected and the deletes left
    pendingSets,        \* cache-manager.js: the calls of set whose promise
                        \* has not settled
    background,         \* core/background.js: globalCacheManager, the
                        \* managers constructed, the start-up call of
                        \* initGlobalCacheManager and the cacheOperation
                        \* messages with their handlers
    render              \* the render call of ExtensionRenderer in progress

vars == <<db, maxItems, memoryMaxItems, memoryCache, memoryAccessOrder, store,
          queue, touchTimers, cleanupTimer, cleanupScheduled,
          cleanupInProgress, cleanupPolls, cleanupAwaited, now, opsIssued,
          ret, recency, generated, deletePromises, pendingSets,
          background, render>>

config == <<db, maxItems, memoryMaxItems>>

manual == <<cleanupPolls, cleanupAwaited>>

-----------------------------------------------------------------------------
(* Bounds and inputs *)

MaxOps == 3

MaxItemsCfg == 1

MemoryMaxItemsCfg == 1

BurstMaxItemsCfg == 3

BurstMemoryMaxItemsCfg == 2

Keys == {"a", "b"}

BurstOrder == <<"A", "B", "C", "D", "E">>

Values == {"v1", "v2"}

KeyOrder == <<"A", "B", "C", "D", "E", "a", "b">>

AllKeys == {KeyOrder[i] : i \in 1..Len(KeyOrder)}

Null == "null"

NoKey == "-"

-----------------------------------------------------------------------------
(* Maps with a dynamic domain (JavaScript Map, object store) *)

EmptyMap == [j \in {} |-> Null]

MapPut(f, k, x) == [j \in (DOMAIN f) \cup {k} |-> IF j = k THEN x ELSE f[j]]

MapDrop(f, S) == [j \in (DOMAIN f) \ S |-> f[j]]

\* Array.prototype.indexOf + splice(index, 1): drops the first occurrence.
RECURSIVE RemoveFirst(_, _)
RemoveFirst(s, k) ==
    IF s = << >> THEN << >>
    ELSE IF Head(s) = k THEN Tail(s)
    ELSE <<Head(s)>> \o RemoveFirst(Tail(s), k)

InSeq(s, k) == \E i \in 1..Len(s) : s[i] = k

Rank(k) == CHOOSE i \in 1..Len(KeyOrder) : KeyOrder[i] = k

Min(a, b) == IF a < b THEN a ELSE b

Max(a, b) == IF a > b THEN a ELSE b

-----------------------------------------------------------------------------
(* L1: the memory tier.  m is [cache |-> Map, order |-> Array]. *)

L1 == [cache |-> memoryCache, order |-> memoryAccessOrder]

\* A removal that forgets the access order (mutant).
RemoveFromMemoryCacheMapOnly(m, k) ==
    [cache |-> MapDrop(m.cache, {k}), order |-> m.order]

\* _removeFromMemoryCache: the key leaves the map and the access order.
RemoveFromMemoryCache(m, k) ==
    IF k \in DOMAIN m.cache
    THEN [cache |-> MapDrop(m.cache, {k}), order |-> RemoveFirst(m.order, k)]
    ELSE m

\* while (memoryCache.size > memoryMaxItems) { shift(); delete(oldestKey) }.
\* With an empty order and a map over the limit the loop of the code never
\* ends: shift() gives undefined and nothing is deleted; the recursion stops
\* there and leaves m as it is.
RECURSIVE EvictOldest(_, _)
EvictOldest(m, cap) ==
    IF Cardinality(DOMAIN m.cache) > cap /\ m.order # << >>
    THEN EvictOldest([cache |-> MapDrop(m.cache, {Head(m.order)}),
                      order |-> Tail(m.order)], cap)
    ELSE m

\* An eviction loop that tolerates one entry too many (mutant).
RECURSIVE EvictOldestOffByOne(_, _)
EvictOldestOffByOne(m, cap) ==
    IF Cardinality(DOMAIN m.cache) > cap + 1 /\ m.order # << >>
    THEN EvictOldestOffByOne([cache |-> MapDrop(m.cache, {Head(m.order)}),
                              order |-> Tail(m.order)], cap)
    ELSE m

AddToMemoryCacheOffByOne(m, k, v, cap) ==
    LET m1 == IF k \in DOMAIN m.cache THEN RemoveFromMemoryCache(m, k) ELSE m
        m2 == [cache |-> MapPut(m1.cache, k, v), order |-> Append(m1.order, k)]
    IN  EvictOldestOffByOne(m2, cap)

AddToMemoryCache(m, k, v, cap) ==
    LET m1 == IF k \in DOMAIN m.cache THEN RemoveFromMemoryCache(m, k) ELSE m
        m2 == [cache |-> MapPut(m1.cache, k, v), order |-> Append(m1.order, k)]
    IN  EvictOldest(m2, cap)

\* A lookup that never finds the key in memory (mutant).
MemoryValueNever(m, k) == Null

\* The value returned by _getFromMemoryCache, Null on a miss.
MemoryValue(m, k) == IF k \in DOMAIN m.cache THEN m.cache[k] ELSE Null

\* A hit that leaves the key where it is in the order (mutant).
GetFromMemoryCacheInPlace(m, k) == m

\* The tier after _getFromMemoryCache: a hit moves the key to the end.
GetFromMemoryCache(m, k) ==
    IF k \in DOMAIN m.cache
    THEN LET m1 == RemoveFromMemoryCache(m, k)
         IN  [cache |-> MapPut(m1.cache, k, m.cache[k]),
              order |-> Append(m1.order, k)]
    ELSE m

ClearMemoryCache == [cache |-> EmptyMap, order |-> << >>]

-----------------------------------------------------------------------------
(* L2: records and transactions *)

\* The record written by set: { key, value, type, size, timestamp, accessTime }.
Item(v, t) == [value |-> v, timestamp |-> t, accessTime |-> t]

Tx(op, k, v, t, n) ==
    [op |-> op, key |-> k, val |-> v, t |-> t, n |-> n, clean |-> TRUE]

NoRet ==
    [op |-> "none", key |-> NoKey, val |-> Null, err |-> "none",
     clean |-> TRUE, evicted |-> {}, cleanup |-> "none",
     limit |-> 0, itemCount |-> 0, items |-> << >>]

Ret(op, k, v, err, clean) ==
    [op |-> op, key |-> k, val |-> v, err |-> err,
     clean |-> clean, evicted |-> {}, cleanup |-> "none",
     limit |-> 0, itemCount |-> 0, items |-> << >>]

HeadIs(op) == queue # << >> /\ Head(queue).op = op

\* A later set, delete or clear of the key, or its eviction, ends the
\* round trip of every set of that key still in flight (history only).
Disturb(q, S) ==
    [i \in 1..Len(q) |->
        IF q[i].op = "put" /\ q[i].key \in S
        THEN [q[i] EXCEPT !.clean = FALSE] ELSE q[i]]

Touch(r, k) == Append(RemoveFirst(r, k), k)

\* An access-time update that get starts before it returns (mutant).
TouchBeforeReturn(timers, q, k) ==
    <<timers, Append(q, Tx("touch", k, Null, now, 0))>>

\* The timer armed by a get of key k that read at clock t.
TouchTimer(k, t) == [key |-> k, at |-> t]

\* setTimeout(async () => { await this.updateAccessTime(key) }, 0): the pair
\* <<touchTimers, queue>> after get has armed the timer.
TouchAfterReturn(timers, q, k) == <<Append(timers, TouchTimer(k, now)), q>>

\* A scan that yields the newest entries first (mutant).
BeforeDescending(s, x, y) ==
    \/ s[x].accessTime > s[y].accessTime
    \/ s[x].accessTime = s[y].accessTime /\ Rank(x) < Rank(y)

\* index.openCursor() on 'accessTime': ascending access time, equal times in
\* the order of the primary key; the stable items.sort keeps that order.
Before(s, x, y) ==
    \/ s[x].accessTime < s[y].accessTime
    \/ s[x].accessTime = s[y].accessTime /\ Rank(x) < Rank(y)

RECURSIVE ScanByAccessTime(_, _)
ScanByAccessTime(s, S) ==
    IF S = {} THEN << >>
    ELSE LET x == CHOOSE x \in S : \A y \in S \ {x} : Before(s, x, y)
         IN  <<x>> \o ScanByAccessTime(s, S \ {x})

\* A selection that takes every entry of the scan (mutant).
KeysToDeleteAll(s, n) == ScanByAccessTime(s, DOMAIN s)

\* items.slice(0, itemsToDelete)
KeysToDelete(s, n) ==
    LET items == ScanByAccessTime(s, DOMAIN s)
    IN  SubSeq(items, 1, Min(n, Len(items)))

\* keysToDelete.forEach(item => this._removeFromMemoryCache(item.key, false))
RECURSIVE RemoveEach(_, _)
RemoveEach(m, ks) ==
    IF ks = << >> THEN m
    ELSE RemoveEach(RemoveFromMemoryCache(m, Head(ks)), Tail(ks))

SeqToSet(s) == {s[i] : i \in 1..Len(s)}

-----------------------------------------------------------------------------
(* generateKey.  Strings are TLA+ strings and \o is their concatenation. *)

Contents == {"x", "y", "x_font:A_size:1"}

Types == {"SVG_PNG", "HTML_PNG"}

\* themeConfig = null
NoTheme == [fontFamily |-> "", fontSize |-> "", supplied |-> FALSE]

\* A supplied themeConfig.  fontSize is the text that the template literal
\* makes of the number; "" stands for a falsy field (undefined, "", 0, NaN).
Theme(family, size) == [fontFamily |-> family, fontSize |-> size, supplied |-> TRUE]

Themes == {NoTheme, Theme("A", "1"), Theme("A", "2"), Theme("A", "")}

\* A key content that leaves the content out (mutant).
KeyContentThemeOnly(content, themeConfig) ==
    "_font:" \o themeConfig.fontFamily \o "_size:" \o themeConfig.fontSize

\* keyContent of generateKey
KeyContent(content, themeConfig) ==
    IF themeConfig.supplied /\ themeConfig.fontFamily # ""
                            /\ themeConfig.fontSize # ""
    THEN content \o "_font:" \o themeConfig.fontFamily
                 \o "_size:" \o themeConfig.fontSize
    ELSE content

\* SHA-256 as 64 hexadecimal digits.  The digest is taken as injective: it
\* stands for its argument, and nothing but equality is used on it.
CalculateHash(text) == [sha256 |-> text]

\* `${hash}_${type}`.  The digest has a fixed length, so the string splits
\* in one way only into digest, "_" and type: it is kept as these parts.
GenerateKey(content, type, themeConfig) ==
    <<CalculateHash(KeyContent(content, themeConfig)), "_", type>>

-----------------------------------------------------------------------------
(* ExtensionRenderer: the render calls that use the cache *)

MaxRenders == 2

MaxMemoryOps == 4

MemoryKeys == {"A", "B", "C"}

RenderCalls == {"renderMermaidToPng", "renderHtmlToPng", "renderSvgToPng"}

\* No render call was made yet.
\* core/background.js before its script has run (the cache manager is
\* driven directly).
NoBackground ==
    [globalCacheManager |-> 0, dbs |-> << >>, startup |-> "done",
     startupManager |-> 0, messages |-> << >>]

NoRender ==
    [fn |-> "none", content |-> "", pc |-> "idle", result |-> "none",
     sent |-> FALSE, setPending |-> FALSE, calls |-> 0]

-----------------------------------------------------------------------------
(* Construction *)

\* The object store outlives the manager: a new manager finds what an earlier
\* one left there, and its memory tier starts empty.
PersistedStores == {EmptyMap, MapPut(EmptyMap, "a", Item("v1", 0))}

Init ==
    /\ db \in {"open", "failed"}
    /\ maxItems = MaxItemsCfg
    /\ memoryMaxItems = MemoryMaxItemsCfg
    /\ memoryCache = EmptyMap
    /\ memoryAccessOrder = << >>
    /\ store \in PersistedStores
    /\ queue = << >>
    /\ touchTimers = << >>
    /\ cleanupTimer = << >>
    /\ cleanupScheduled = FALSE
    /\ cleanupInProgress = FALSE
    /\ cleanupPolls = 0
    /\ cleanupAwaited = FALSE
    /\ now = 0
    /\ opsIssued = 0
    /\ ret = NoRet
    /\ recency = << >>
    /\ generated = << >>
    /\ deletePromises = EmptyMap
    /\ pendingSets = {}
    /\ background = NoBackground
    /\ render = NoRender

-----------------------------------------------------------------------------
(* get *)

\* get(key) up to its return (memory hit), its rejection by ensureDB, or the
\* creation of its transaction.
Get(k) ==
    LET v == MemoryValue(L1, k)
        m == GetFromMemoryCache(L1, k)
    IN  /\ opsIssued' = opsIssued + 1
        /\ IF v # Null
           THEN /\ memoryCache' = m.cache
                /\ memoryAccessOrder' = m.order
                /\ touchTimers' = TouchAfterReturn(touchTimers, queue, k)[1]
                /\ queue' = TouchAfterReturn(touchTimers, queue, k)[2]
                /\ ret' = Ret("get", k, v, "none", TRUE)
                /\ recency' = Touch(recency, k)
           ELSE /\ IF db = "open"
                   THEN /\ queue' = Append(queue, Tx("get", k, Null, 0, 0))
                        /\ ret' = NoRet
                   ELSE /\ ret' = Ret("get", k, Null, "init", TRUE)
                        /\ UNCHANGED queue
                /\ UNCHANGED <<memoryCache, memoryAccessOrder, touchTimers,
                               recency>>
        /\ UNCHANGED <<config, background, deletePromises, pendingSets, render, generated, manual, store, cleanupTimer, cleanupScheduled,
                       cleanupInProgress, now>>

\* getRequest.onsuccess of get
GetExec ==
    /\ HeadIs("get")
    /\ LET k == Head(queue).key
       IN  IF k \in DOMAIN store
           THEN LET m == AddToMemoryCache(L1, k, store[k].value, memoryMaxItems)
                IN  /\ memoryCache' = m.cache
                    /\ memoryAccessOrder' = m.order
                    /\ touchTimers' = Append(touchTimers, TouchTimer(k, now))
                    /\ ret' = Ret("get", k, store[k].value, "none", TRUE)
                    /\ recency' = Touch(recency, k)
           ELSE /\ ret' = Ret("get", k, Null, "none", TRUE)
                /\ UNCHANGED <<memoryCache, memoryAccessOrder, touchTimers,
                               recency>>
    /\ queue' = Tail(queue)
    /\ UNCHANGED <<config, background, deletePromises, pendingSets, render, generated, manual, store, cleanupTimer, cleanupScheduled,
                   cleanupInProgress, now, opsIssued>>

\* The setTimeout(0) callback of get: updateAccessTime up to its transaction;
\* a rejection by ensureDB is caught and dropped.
TouchTimerFire ==
    /\ touchTimers # << >>
    /\ touchTimers' = Tail(touchTimers)
    /\ queue' = IF db = "open"
                THEN Append(queue, Tx("touch", Head(touchTimers).key, Null,
                                      Head(touchTimers).at, 0))
                ELSE queue
    /\ ret' = NoRet
    /\ UNCHANGED <<config, background, deletePromises, pendingSets, render, generated, manual, memoryCache, memoryAccessOrder, store, cleanupTimer,
                   cleanupScheduled, cleanupInProgress, now, opsIssued,
                   recency>>

\* An update that writes a fresh record, present or not (mutant).
UpdateAccessTimeAsPut(s, k, t) ==
    MapPut(s, k, Item(IF k \in DOMAIN s THEN s[k].value ELSE Null, t))

\* An update that writes nothing (mutant).
UpdateAccessTimeSkipped(s, k, t) == s

\* The transaction of updateAccessTime: get, then put with accessTime = now.
UpdateAccessTime(s, k, t) ==
    IF k \in DOMAIN s THEN [s EXCEPT ![k].accessTime = t] ELSE s

TouchExec ==
    /\ HeadIs("touch")
    /\ \E d \in {0, 1} :
        /\ now' = IF Head(queue).key \in DOMAIN store THEN now + d ELSE now
        /\ store' = UpdateAccessTime(store, Head(queue).key, now')
    /\ queue' = Tail(queue)
    /\ ret' = NoRet
    /\ UNCHANGED <<config, background, deletePromises, pendingSets, render, generated, manual, memoryCache, memoryAccessOrder, touchTimers,
                   cleanupTimer, cleanupScheduled, cleanupInProgress,
                   opsIssued, recency>>

\* A failed request or transaction of updateAccessTime: the rejection is
\* caught in the timer callback and dropped.
TouchFail ==
    /\ HeadIs("touch")
    /\ queue' = Tail(queue)
    /\ ret' = NoRet
    /\ UNCHANGED <<config, background, deletePromises, pendingSets, render, generated, manual, memoryCache, memoryAccessOrder, store, touchTimers,
                   cleanupTimer, cleanupScheduled, cleanupInProgress, now,
                   opsIssued, recency>>

-----------------------------------------------------------------------------
(* set *)

\* set(key, value, type) up to its rejection by ensureDB or its store.put.
Set(k, v) ==
    LET m == AddToMemoryCache(L1, k, v, memoryMaxItems)
    IN  /\ opsIssued' = opsIssued + 1
        /\ memoryCache' = m.cache
        /\ memoryAccessOrder' = m.order
        /\ IF db = "open"
           THEN /\ \E d \in {0, 1} : now' = now + d
                /\ queue' = Append(Disturb(queue, {k}), Tx("put", k, v, now', 0))
                /\ ret' = NoRet
           ELSE /\ ret' = Ret("set", k, v, "init", TRUE)
                /\ UNCHANGED <<queue, now>>
        /\ UNCHANGED <<config, background, deletePromises, pendingSets, render, generated, manual, store, touchTimers, cleanupTimer,
                       cleanupScheduled, cleanupInProgress, recency>>

\* A set that arms a timer whatever the flags say (mutant).
ScheduleAsyncCleanupAlways == <<TRUE, Append(cleanupTimer, now)>>

\* A set that never asks for a pass (mutant).
ScheduleAsyncCleanupNever == <<cleanupScheduled, cleanupTimer>>

\* _scheduleAsyncCleanup: the pair <<cleanupScheduled, cleanupTimer>> after it.
ScheduleAsyncCleanup ==
    IF cleanupScheduled \/ cleanupInProgress
    THEN <<cleanupScheduled, cleanupTimer>>
    ELSE <<TRUE, Append(cleanupTimer, now)>>

\* request.onsuccess of store.put, then the rest of set.
PutSucceed ==
    /\ HeadIs("put")
    /\ LET tx == Head(queue)
       IN  /\ store' = MapPut(store, tx.key, Item(tx.val, tx.t))
           /\ ret' = Ret("set", tx.key, tx.val, "none", tx.clean)
    /\ cleanupScheduled' = ScheduleAsyncCleanup[1]
    /\ cleanupTimer' = ScheduleAsyncCleanup[2]
    /\ recency' = Touch(recency, Head(queue).key)
    /\ queue' = Tail(queue)
    /\ UNCHANGED <<config, background, deletePromises, pendingSets, render, generated, manual, memoryCache, memoryAccessOrder, touchTimers,
                   cleanupInProgress, now, opsIssued>>

\* A failed put that leaves the memory entry in place (mutant).
PutFailedMemoryKept(m, k) == m

\* request.onerror, transaction.onerror, transaction.onabort and the catch
\* block of set: each removes the key from the memory tier.
PutFailedMemory(m, k) == RemoveFromMemoryCache(m, k)

PutFail ==
    /\ HeadIs("put")
    /\ LET tx == Head(queue)
           m  == PutFailedMemory(L1, tx.key)
       IN  /\ memoryCache' = m.cache
           /\ memoryAccessOrder' = m.order
           /\ ret' = Ret("set", tx.key, tx.val, "put", tx.clean)
    /\ queue' = Tail(queue)
    /\ UNCHANGED <<config, background, deletePromises, pendingSets, render, generated, manual, store, touchTimers, cleanupTimer, cleanupScheduled,
                   cleanupInProgress, now, opsIssued, recency>>

-----------------------------------------------------------------------------
(* delete and clear *)

Delete(k) ==
    LET m == RemoveFromMemoryCache(L1, k)
    IN  /\ opsIssued' = opsIssued + 1
        /\ memoryCache' = m.cache
        /\ memoryAccessOrder' = m.order
        /\ recency' = RemoveFirst(recency, k)
        /\ IF db = "open"
           THEN /\ queue' = Append(Disturb(queue, {k}),
                                   Tx("delete", k, Null, 0, 0))
                /\ ret' = NoRet
           ELSE /\ ret' = Ret("delete", k, Null, "init", TRUE)
                /\ UNCHANGED queue
        /\ UNCHANGED <<config, background, deletePromises, pendingSets, render, generated, manual, store, touchTimers, cleanupTimer,
                       cleanupScheduled, cleanupInProgress, now>>

\* request.onsuccess of store.delete
DeleteExec ==
    /\ HeadIs("delete")
    /\ store' = MapDrop(store, {Head(queue).key})
    /\ ret' = Ret("delete", Head(queue).key, Null, "none", TRUE)
    /\ queue' = Tail(queue)
    /\ UNCHANGED <<config, background, deletePromises, pendingSets, render, generated, manual, memoryCache, memoryAccessOrder, touchTimers,
                   cleanupTimer, cleanupScheduled, cleanupInProgress, now,
                   opsIssued, recency>>

Clear ==
    /\ opsIssued' = opsIssued + 1
    /\ memoryCache' = ClearMemoryCache.cache
    /\ memoryAccessOrder' = ClearMemoryCache.order
    /\ recency' = << >>
    /\ IF db = "open"
       THEN /\ queue' = Append(Disturb(queue, AllKeys),
                               Tx("clear", NoKey, Null, 0, 0))
            /\ ret' = NoRet
       ELSE /\ ret' = Ret("clear", NoKey, Null, "init", TRUE)
            /\ UNCHANGED queue
    /\ UNCHANGED <<config, background, deletePromises, pendingSets, render, generated, manual, store, touchTimers, cleanupTimer, cleanupScheduled,
                   cleanupInProgress, now>>

\* request.onsuccess of store.clear
ClearExec ==
    /\ HeadIs("clear")
    /\ store' = EmptyMap
    /\ ret' = Ret("clear", NoKey, Null, "none", TRUE)
    /\ queue' = Tail(queue)
    /\ UNCHANGED <<config, background, deletePromises, pendingSets, render, generated, manual, memoryCache, memoryAccessOrder, touchTimers,
                   cleanupTimer, cleanupScheduled, cleanupInProgress, now,
                   opsIssued, recency>>

-----------------------------------------------------------------------------
(* getStats *)

\* The limits that the message handler passes: message.limit || 50.
StatsLimits == {1, 50}

\* .slice(0, 20)
StatsShown == 20

\* items.sort((a, b) => b.accessTime - a.accessTime) on the result of
\* getAll(), which comes in the order of the primary key; the sort is stable.
MostRecentFirst(s, x, y) ==
    \/ s[x].accessTime > s[y].accessTime
    \/ s[x].accessTime = s[y].accessTime /\ Rank(x) < Rank(y)

RECURSIVE SortByLastAccess(_, _)
SortByLastAccess(s, S) ==
    IF S = {} THEN << >>
    ELSE LET x == CHOOSE x \in S : \A y \in S \ {x} : MostRecentFirst(s, x, y)
         IN  <<x>> \o SortByLastAccess(s, S \ {x})

\* The keys of indexedDBCache.items in the result of getStats.
StatsItems(s) ==
    LET items == SortByLastAccess(s, DOMAIN s)
    IN  SubSeq(items, 1, Min(StatsShown, Len(items)))

\* getStats(limit) up to its rejection by ensureDB or its store.getAll();
\* the function declares no parameter, the argument is dropped.
GetStats(limit) ==
    /\ opsIssued' = opsIssued + 1
    /\ IF db = "open"
       THEN /\ queue' = Append(queue, Tx("stats", NoKey, Null, 0, limit))
            /\ ret' = NoRet
       ELSE /\ ret' = [NoRet EXCEPT !.op = "stats", !.err = "init",
                                    !.limit = limit]
            /\ UNCHANGED queue
    /\ UNCHANGED <<config, background, deletePromises, pendingSets, render, generated, manual, memoryCache, memoryAccessOrder,
                   store, touchTimers, cleanupTimer, cleanupScheduled,
                   cleanupInProgress, now, recency>>

\* request.onsuccess of store.getAll()
StatsExec ==
    /\ HeadIs("stats")
    /\ ret' = [NoRet EXCEPT !.op = "stats", !.limit = Head(queue).n,
                            !.itemCount = Cardinality(DOMAIN store),
                            !.items = StatsItems(store)]
    /\ queue' = Tail(queue)
    /\ UNCHANGED <<config, background, deletePromises, pendingSets, render, generated, manual, memoryCache, memoryAccessOrder,
                   store, touchTimers, cleanupTimer, cleanupScheduled,
                   cleanupInProgress, now, opsIssued, recency>>

-----------------------------------------------------------------------------
(* The eviction pass *)

\* A guard that lets a pass start while another one is running (mutant).
PassMayStartAlways == TRUE

\* if (this.cleanupInProgress) return;  at the head of _asyncCleanup and in
\* the timer callback.
PassMayStart == ~cleanupInProgress

\* What the end of a pass returns to the call of cleanup() that awaits it.
CleanupReturns(outcome) == IF cleanupAwaited THEN outcome ELSE "none"

\* The setTimeout(..., 10) callback of _scheduleAsyncCleanup, then
\* _asyncCleanup up to store.count().  At least 10 ms have passed since the
\* timer was armed.
CleanupTimerFire ==
    /\ cleanupTimer # << >>
    /\ cleanupTimer' = Tail(cleanupTimer)
    /\ cleanupScheduled' = FALSE
    /\ now' = Max(now, Head(cleanupTimer) + 1)
    /\ IF PassMayStart
       THEN /\ cleanupInProgress' = TRUE
            /\ queue' = Append(queue, Tx("count", NoKey, Null, 0, 0))
       ELSE UNCHANGED <<cleanupInProgress, queue>>
    /\ ret' = NoRet
    /\ UNCHANGED <<config, background, deletePromises, pendingSets, render, generated, manual, memoryCache,
                   memoryAccessOrder, store, touchTimers, opsIssued, recency>>

\* cleanup(): with a pass in progress it enters the polling loop; otherwise
\* it runs _asyncCleanup up to store.count() and awaits it.  With a failed
\* initDB ensureDB rejects inside the try block of _asyncCleanup, the finally
\* block resets the flag and the call rejects.
Cleanup ==
    /\ opsIssued' = opsIssued + 1
    /\ IF ~PassMayStart
       THEN /\ cleanupPolls' = cleanupPolls + 1
            /\ ret' = NoRet
            /\ UNCHANGED <<cleanupInProgress, cleanupAwaited, queue>>
       ELSE IF db = "open"
       THEN /\ cleanupInProgress' = TRUE
            /\ cleanupAwaited' = TRUE
            /\ queue' = Append(queue, Tx("count", NoKey, Null, 0, 0))
            /\ ret' = NoRet
            /\ UNCHANGED cleanupPolls
       ELSE /\ ret' = [NoRet EXCEPT !.op = "cleanup", !.err = "init",
                                    !.cleanup = "failed"]
            /\ UNCHANGED <<cleanupInProgress, cleanupAwaited, cleanupPolls,
                           queue>>
    /\ UNCHANGED <<config, background, deletePromises, pendingSets, render, generated, memoryCache, memoryAccessOrder, store, touchTimers,
                   cleanupTimer, cleanupScheduled, now, recency>>

\* A setTimeout(resolve, 50) of the polling loop of cleanup() that finds no
\* pass in progress: the loop ends and cleanup() returns.  While a pass is
\* in progress the callback only arms the next timer.
CleanupPoll ==
    /\ cleanupPolls > 0
    /\ ~cleanupInProgress
    /\ cleanupPolls' = cleanupPolls - 1
    /\ ret' = [NoRet EXCEPT !.op = "cleanup", !.cleanup = "waited"]
    /\ UNCHANGED <<config, background, deletePromises, pendingSets, render, generated, memoryCache, memoryAccessOrder, store, queue,
                   touchTimers, cleanupTimer, cleanupScheduled,
                   cleanupInProgress, cleanupAwaited, now, opsIssued, recency>>

\* A pass that also evicts from a store that is just full (mutant).
PassNeededAtLimit(itemCount) == itemCount >= maxItems

\* if (itemCount <= this.maxItems) return;
PassNeeded(itemCount) == itemCount > maxItems

\* countRequest.onsuccess: return when itemCount <= maxItems, otherwise open
\* the cleanup transaction with itemsToDelete = itemCount - maxItems.
CountExec ==
    /\ HeadIs("count")
    /\ LET itemCount == Cardinality(DOMAIN store)
       IN  IF ~PassNeeded(itemCount)
           THEN /\ cleanupInProgress' = FALSE
                /\ cleanupAwaited' = FALSE
                /\ queue' = Tail(queue)
                /\ ret' = IF cleanupAwaited
                          THEN [NoRet EXCEPT !.op = "cleanup",
                                             !.cleanup = "ran"]
                          ELSE NoRet
           ELSE /\ queue' = Append(Tail(queue),
                        Tx("scan", NoKey, Null, 0, itemCount - maxItems))
                /\ ret' = NoRet
                /\ UNCHANGED <<cleanupInProgress, cleanupAwaited>>
    /\ UNCHANGED <<config, background, deletePromises, pendingSets, render, generated, memoryCache, memoryAccessOrder, store, touchTimers,
                   cleanupTimer, cleanupScheduled, cleanupPolls, now,
                   opsIssued, recency>>

\* The cleanup transaction: the cursor scan, the removal of the selected keys
\* from both tiers, and the finally block of _asyncCleanup.
ScanExec ==
    /\ HeadIs("scan")
    /\ LET keysToDelete == KeysToDelete(store, Head(queue).n)
           m == RemoveEach(L1, keysToDelete)
       IN  /\ memoryCache' = m.cache
           /\ memoryAccessOrder' = m.order
           /\ store' = MapDrop(store, SeqToSet(keysToDelete))
           /\ queue' = Disturb(Tail(queue), SeqToSet(keysToDelete))
           /\ ret' = [NoRet EXCEPT !.op = "evict",
                        !.evicted = {[key |-> keysToDelete[i],
                                      at |-> store[keysToDelete[i]].accessTime] :
                                     i \in 1..Len(keysToDelete)},
                        !.cleanup = CleanupReturns("ran")]
    /\ cleanupInProgress' = FALSE
    /\ cleanupAwaited' = FALSE
    /\ UNCHANGED <<config, background, deletePromises, pendingSets, render, generated, touchTimers, cleanupTimer, cleanupScheduled,
                   cleanupPolls, now, opsIssued, recency>>

\* A failed pass that leaves the flag as it is (mutant).
FlagAfterFailedPassKept == cleanupInProgress

\* finally { this.cleanupInProgress = false; }  after a rejection in the try
\* block of _asyncCleanup.
FlagAfterFailedPass == FALSE

\* A failed request or transaction of the pass.  The finally block resets
\* the flag; the timer callback logs the error, a call of cleanup() that
\* awaits the pass rejects.  A failure of a delete request comes after the
\* selected keys were removed from the memory tier, and the aborted
\* transaction leaves the store as it was.  ret keeps the error, and the
\* keys whose deletion the pass has requested (history).
CleanupFail ==
    /\ HeadIs("count") \/ HeadIs("scan")
    /\ \E removed \in BOOLEAN :
        LET keysToDelete == IF HeadIs("scan") /\ removed
                            THEN KeysToDelete(store, Head(queue).n)
                            ELSE << >>
            m == RemoveEach(L1, keysToDelete)
        IN  /\ memoryCache' = m.cache
            /\ memoryAccessOrder' = m.order
            /\ queue' = Disturb(Tail(queue), SeqToSet(keysToDelete))
            /\ ret' = [NoRet EXCEPT
                        !.op = IF cleanupAwaited THEN "cleanup" ELSE "none",
                        !.err = "pass",
                        !.cleanup = CleanupReturns("failed"),
                        !.evicted = {[key |-> keysToDelete[i],
                                      at |-> store[keysToDelete[i]].accessTime] :
                                     i \in 1..Len(keysToDelete)}]
    /\ cleanupInProgress' = FlagAfterFailedPass
    /\ cleanupAwaited' = FALSE
    /\ UNCHANGED <<config, background, deletePromises, pendingSets, render, generated, store, touchTimers, cleanupTimer, cleanupScheduled,
                   cleanupPolls, now, opsIssued, recency>>

-----------------------------------------------------------------------------
(* Specifications *)

CallGet == \E k \in Keys : opsIssued < MaxOps /\ Get(k)

CallSet == \E k \in Keys, v \in Values : opsIssued < MaxOps /\ Set(k, v)

CallDelete == \E k \in Keys : opsIssued < MaxOps /\ Delete(k)

CallClear == opsIssued < MaxOps /\ Clear

CallCleanup == opsIssued < MaxOps /\ Cleanup

CallGetStats == \E limit \in StatsLimits : opsIssued < MaxOps /\ GetStats(limit)

Next ==
    \/ CallGet
    \/ CallSet
    \/ CallDelete
    \/ CallClear
    \/ CallCleanup
    \/ CallGetStats
    \/ GetExec
    \/ TouchTimerFire
    \/ TouchExec
    \/ TouchFail
    \/ PutSucceed
    \/ PutFail
    \/ DeleteExec
    \/ ClearExec
    \/ CleanupTimerFire
    \/ CleanupPoll
    \/ CountExec
    \/ ScanExec
    \/ CleanupFail
    \/ StatsExec

Spec == Init /\ [][Next]_vars

\* A caller that inserts distinct keys one after another, each set awaited,
\* into an empty store, with the capacities of the example scenarios
\* (maxItems = 3, memoryMaxItems = 2).
InitBurst ==
    /\ db = "open"
    /\ maxItems = BurstMaxItemsCfg
    /\ memoryMaxItems = BurstMemoryMaxItemsCfg
    /\ memoryCache = EmptyMap
    /\ memoryAccessOrder = << >>
    /\ store = EmptyMap
    /\ queue = << >>
    /\ touchTimers = << >>
    /\ cleanupTimer = << >>
    /\ cleanupScheduled = FALSE
    /\ cleanupInProgress = FALSE
    /\ cleanupPolls = 0
    /\ cleanupAwaited = FALSE
    /\ now = 0
    /\ opsIssued = 0
    /\ ret = NoRet
    /\ recency = << >>
    /\ generated = << >>
    /\ deletePromises = EmptyMap
    /\ pendingSets = {}
    /\ background = NoBackground
    /\ render = NoRender

SetInFlight(k) == \E i \in 1..Len(queue) : queue[i].op = "put" /\ queue[i].key = k

BurstSet ==
    /\ opsIssued < Len(BurstOrder)
    /\ \A k \in AllKeys : ~SetInFlight(k)
    /\ Set(BurstOrder[opsIssued + 1], "v1")

NextBurst ==
    \/ BurstSet
    \/ PutSucceed
    \/ CleanupTimerFire
    \/ CountExec
    \/ ScanExec

SpecBurst == InitBurst /\ [][NextBurst]_vars

\* Gets and sets of three keys on a memory tier of two entries
\* (memoryMaxItems = 2) and a store that holds them all (maxItems = 3).
MemoryGet == \E k \in MemoryKeys : opsIssued < MaxMemoryOps /\ Get(k)

MemorySet == \E k \in MemoryKeys : opsIssued < MaxMemoryOps /\ Set(k, "v1")

NextMemory ==
    \/ MemoryGet
    \/ MemorySet
    \/ GetExec
    \/ TouchTimerFire
    \/ TouchExec
    \/ PutSucceed

SpecMemory == InitBurst /\ [][NextMemory]_vars

\* The same caller, with passes that may fail.
NextBurstFail ==
    \/ BurstSet
    \/ PutSucceed
    \/ CleanupTimerFire
    \/ CountExec
    \/ ScanExec
    \/ CleanupFail

SpecBurstFail == InitBurst /\ [][NextBurstFail]_vars

\* Two calls of generateKey with any inputs; the cache is left alone.
GenerateKeyCall ==
    /\ Len(generated) < 2
    /\ \E content \in Contents, type \in Types, themeConfig \in Themes :
        generated' = Append(generated,
            [content |-> content, type |-> type, themeConfig |-> themeConfig,
             key |-> GenerateKey(content, type, themeConfig)])
    /\ UNCHANGED <<config, background, deletePromises, pendingSets, render, manual, memoryCache, memoryAccessOrder, store,
                   queue, touchTimers, cleanupTimer, cleanupScheduled,
                   cleanupInProgress, now, opsIssued, ret, recency>>

NextKey == GenerateKeyCall

\* The rest of a state of the cache, which the render calls below reach only
\* through the results of its get and set.
cacheState ==
    <<config, background, deletePromises, pendingSets, generated, manual, memoryCache, memoryAccessOrder, store, queue,
      touchTimers, cleanupTimer, cleanupScheduled, cleanupInProgress, now,
      opsIssued, ret, recency>>

\* renderMermaidToPng, renderHtmlToPng or renderSvgToPng up to
\* await this.cache.get(cacheKey).
RenderCall ==
    /\ render.pc \in {"idle", "done", "rejected"}
    /\ ~render.setPending
    /\ render.calls < MaxRenders
    /\ \E fn \in RenderCalls, content \in Contents :
        render' = [fn |-> fn, content |-> content, pc |-> "get",
                   result |-> "none", sent |-> FALSE, setPending |-> FALSE,
                   calls |-> render.calls + 1]
    /\ UNCHANGED cacheState

\* The end of await this.cache.get(cacheKey): a value, null, or a rejection
\* (ensureDB after a failed initDB, getRequest.onerror, transaction.onerror).
\* The await is in no try block; on null the render request is sent.
RenderCacheGet ==
    /\ render.pc = "get"
    /\ \E outcome \in {"hit", "miss", "fail"} :
        render' = IF outcome = "hit"
                  THEN [render EXCEPT !.pc = "done", !.result = "cached"]
                  ELSE IF outcome = "miss"
                  THEN [render EXCEPT !.pc = "send", !.sent = TRUE]
                  ELSE [render EXCEPT !.pc = "rejected",
                                      !.result = "cacheError"]
    /\ UNCHANGED cacheState

\* The end of await this._sendMessage(...): a response or an error.  Then
\* renderSvgToPng starts cache.set without awaiting it and returns; the
\* other two calls await cache.set in a try block.
RenderResponse ==
    /\ render.pc = "send"
    /\ \E outcome \in {"ok", "error"} :
        render' = IF outcome = "error"
                  THEN [render EXCEPT !.pc = "rejected",
                                      !.result = "renderError"]
                  ELSE IF render.fn = "renderSvgToPng"
                  THEN [render EXCEPT !.pc = "done", !.result = "response",
                                      !.setPending = TRUE]
                  ELSE [render EXCEPT !.pc = "set"]
    /\ UNCHANGED cacheState

\* The end of await this.cache.set(...) in its try block: the catch block
\* drops a rejection, the call returns the response either way.
RenderCacheSet ==
    /\ render.pc = "set"
    /\ \E outcome \in {"ok", "fail"} :
        render' = [render EXCEPT !.pc = "done", !.result = "response"]
    /\ UNCHANGED cacheState

\* The then or catch callback of the cache.set of renderSvgToPng.
RenderCacheSetDetached ==
    /\ render.setPending
    /\ render' = [render EXCEPT !.setPending = FALSE]
    /\ UNCHANGED cacheState

NextRender ==
    \/ RenderCall
    \/ RenderCacheGet
    \/ RenderResponse
    \/ RenderCacheSet
    \/ RenderCacheSetDetached

SpecRender == InitBurst /\ [][NextRender]_vars

\* The callback of the transaction at the head of the queue, successful or
\* not.
QueueStep ==
    \/ GetExec
    \/ TouchExec
    \/ TouchFail
    \/ PutSucceed
    \/ PutFail
    \/ DeleteExec
    \/ ClearExec
    \/ CountExec
    \/ ScanExec
    \/ CleanupFail
    \/ StatsExec

\* The cache with failures, where IndexedDB settles every transaction in the
\* end, one way or the other.
SpecSettle == Init /\ [][Next]_vars /\ WF_vars(QueueStep)

\* The cache with every transaction succeeding, every timer firing and every
\* pending transaction run in the end: the event loop and IndexedDB leave no
\* callback waiting forever.
NextTouch ==
    \/ CallGet
    \/ CallSet
    \/ GetExec
    \/ TouchTimerFire
    \/ TouchExec
    \/ PutSucceed
    \/ CleanupTimerFire
    \/ CountExec
    \/ ScanExec

SpecTouch ==
    /\ Init
    /\ [][NextTouch]_vars
    /\ WF_vars(TouchTimerFire)
    /\ WF_vars(GetExec)
    /\ WF_vars(TouchExec)
    /\ WF_vars(PutSucceed)
    /\ WF_vars(CleanupTimerFire)
    /\ WF_vars(CountExec)
    /\ WF_vars(ScanExec)

SpecKey == InitBurst /\ [][NextKey]_vars

-----------------------------------------------------------------------------
(* Observations used by the properties *)

\* What get(k) returns when it is called in this state and its read of the
\* store, if it needs one, runs before any other transaction.
ReadNow(k) ==
    IF k \in DOMAIN memoryCache THEN memoryCache[k]
    ELSE IF k \in DOMAIN store THEN store[k].value
    ELSE Null

\* No transaction is pending, no timer is armed and no pass is running: with
\* no further call nothing happens any more.
Quiescent ==
    /\ queue = << >>
    /\ touchTimers = << >>
    /\ ~cleanupScheduled
    /\ cleanupTimer = << >>
    /\ ~cleanupInProgress
    /\ cleanupPolls = 0

\* Position of a key in the order of the callers' touches; 0 for a key not
\* touched since construction.
TouchPos(k) ==
    IF InSeq(recency, k) THEN CHOOSE i \in 1..Len(recency) : recency[i] = k
    ELSE 0

-----------------------------------------------------------------------------
(* Properties *)

\* C1: in every reachable state the memory tier holds at most memoryMaxItems
\* entries.
C1_MemoryBound == Cardinality(DOMAIN memoryCache) <= memoryMaxItems

\* Two sets of different keys were issued into a full memory tier: the second
\* insert has evicted the entry of the first.
C1_Witness ==
    /\ Len(queue) = 2
    /\ queue[1].op = "put" /\ queue[2].op = "put"
    /\ queue[1].key # queue[2].key
    /\ queue[1].key \notin DOMAIN memoryCache
    /\ queue[2].key \in DOMAIN memoryCache
    /\ Cardinality(DOMAIN memoryCache) = memoryMaxItems

\* C2: when set(k, v) has returned successfully, and no later set, delete or
\* clear touched k and no pass evicted it, a get(k) called next returns v.
C2_RoundTrip ==
    (ret.op = "set" /\ ret.err = "none" /\ ret.clean)
        => ReadNow(ret.key) = ret.val

\* C3: the bound of the persistent tier is restored without further calls:
\* once no transaction, timer or pass is left that could still change the
\* store, it holds at most maxItems entries.
C3_EventualBound == Quiescent => Cardinality(DOMAIN store) <= maxItems

\* C4: after more than maxItems distinct keys were inserted one after another
\* and the eviction has finished, the store holds exactly maxItems entries,
\* the most recently inserted keys.
C4_BurstKeepsNewest ==
    (Quiescent /\ opsIssued > maxItems)
        => /\ Cardinality(DOMAIN store) = maxItems
           /\ DOMAIN store =
                {BurstOrder[i] : i \in (opsIssued - maxItems + 1)..opsIssued}

\* C5 as stated: a pass never evicts a key while a key that the callers
\* touched (set or read) less recently remains in the store.
C5_EvictsLeastRecentlyTouched ==
    ret.op = "evict" =>
        \A e \in ret.evicted : \A k \in DOMAIN store :
            TouchPos(k) >= TouchPos(e.key)

\* C5 as amended: a pass evicts in ascending order of the access time recorded
\* in the store when it scans: no key is evicted while a key with a smaller
\* recorded access time remains.
C5_EvictsOldestRecorded ==
    ret.op = "evict" =>
        \A e \in ret.evicted : \A k \in DOMAIN store :
            store[k].accessTime >= e.at

\* A pass has evicted a key and left another one, with a later access time,
\* in the store.
C5_Witness ==
    /\ ret.op = "evict"
    /\ \E e \in ret.evicted : \E k \in DOMAIN store : store[k].accessTime > e.at

C7_DegradedNoOp ==
    db = "failed" =>
        /\ memoryCache = EmptyMap
        /\ store \in PersistedStores
        /\ ret.op \in {"get", "set"} => ret.err = "none"
        /\ ret.op = "get" => ret.val = Null

\* C8: when clear() has returned, get(k) returns null for every key without a
\* set issued since clear started, and with no such set both tiers are empty.
C8_ClearComplete ==
    (ret.op = "clear" /\ ret.err = "none")
        => /\ \A k \in Keys : ~SetInFlight(k) => ReadNow(k) = Null
           /\ (\A k \in Keys : ~SetInFlight(k))
                => memoryCache = EmptyMap /\ store = EmptyMap

\* C9: when delete(k) has returned, k is in neither tier unless a set(k) was
\* issued after the delete started.
C9_DeleteRemoves ==
    (ret.op = "delete" /\ ret.err = "none" /\ ~SetInFlight(ret.key))
        => /\ ret.key \notin DOMAIN memoryCache
           /\ ret.key \notin DOMAIN store

\* C10: the creation timestamp of a key does not change for as long as the key
\* stays in the store.
C10_CreatedAtKept ==
    [][\A k \in (DOMAIN store) \cap (DOMAIN store') :
            store'[k].timestamp = store[k].timestamp]_vars

\* C11: get(k) looks in the memory tier first and returns its value on a hit;
\* it reads the store only on a memory miss; a store hit puts the value into
\* the memory tier and returns it; a store miss returns null without an error
\* and changes neither tier.
C11_GetLooksUp ==
    [][/\ (Len(queue') = Len(queue) + 1 /\ queue'[Len(queue')].op = "get")
            => queue'[Len(queue')].key \notin DOMAIN memoryCache
       /\ (opsIssued' = opsIssued + 1 /\ ret'.op = "get" /\ ret'.err = "none")
            => /\ ret'.key \in DOMAIN memoryCache
               /\ ret'.val = memoryCache[ret'.key]
               /\ queue' = queue
       /\ (HeadIs("get") /\ queue' = Tail(queue))
            => LET k == Head(queue).key
               IN  IF k \in DOMAIN store
                   THEN /\ ret' = Ret("get", k, store[k].value, "none", TRUE)
                        /\ k \in DOMAIN memoryCache'
                        /\ memoryCache'[k] = store[k].value
                        /\ store' = store
                   ELSE /\ ret' = Ret("get", k, Null, "none", TRUE)
                        /\ memoryCache' = memoryCache
                        /\ memoryAccessOrder' = memoryAccessOrder
                        /\ store' = store]_vars

\* The first call was a get that missed the memory tier, found its key in the
\* store and left the value in the memory tier.
C11_Witness ==
    /\ opsIssued = 1
    /\ ret.op = "get" /\ ret.err = "none" /\ ret.val # Null
    /\ ret.key \in DOMAIN memoryCache
    /\ memoryCache[ret.key] = ret.val

\* C12: a get served from the memory tier returns in the task of the call,
\* with no transaction created and the store untouched; the access-time
\* update is left to a timer, and neither the timer callback nor the update
\* transaction, failed or not, returns anything to a caller or changes the
\* memory tier.
C12_HitReturnsAtOnce ==
    [][/\ (opsIssued' = opsIssued + 1 /\ ret'.op = "get" /\ ret'.err = "none")
            => /\ queue' = queue
               /\ store' = store
               /\ touchTimers' = Append(touchTimers, TouchTimer(ret'.key, now))
       /\ (touchTimers # << >> /\ touchTimers' = Tail(touchTimers))
            => ret' = NoRet /\ memoryCache' = memoryCache
       /\ (HeadIs("touch") /\ queue' = Tail(queue))
            => ret' = NoRet /\ memoryCache' = memoryCache]_vars

\* A get has returned the value of a set whose put is still pending, and its
\* access-time update is waiting for its timer.
C12_Witness ==
    /\ ret.op = "get" /\ ret.err = "none" /\ ret.val # Null
    /\ SetInFlight(ret.key)
    /\ Len(touchTimers) = 1
    /\ touchTimers[1].key = ret.key

\* C13: while the put of set(k, v) is pending, and no later set, delete,
\* clear or eviction pass touched k, the memory tier does not hold another
\* value for k than v: a get(k) served from memory returns v.
C13_ReadYourWrite ==
    \A i \in 1..Len(queue) :
        (queue[i].op = "put" /\ queue[i].clean
            /\ queue[i].key \in DOMAIN memoryCache)
        => memoryCache[queue[i].key] = queue[i].val

\* C14: set returns in the task in which its put succeeds: that task arms the
\* timer of the pass when none is armed or running, and starts no pass and
\* evicts nothing; the steps of a pass, its failure included, never return
\* to a caller of set.
C14_SetDoesNotWaitForEviction ==
    [][/\ (HeadIs("put") /\ ret'.op = "set" /\ ret'.err = "none")
            => /\ queue' = Tail(queue)
               /\ cleanupInProgress' = cleanupInProgress
               /\ (~cleanupScheduled /\ ~cleanupInProgress) => cleanupScheduled'
               /\ DOMAIN store' = DOMAIN store \cup {ret'.key}
               /\ memoryCache' = memoryCache
       /\ (cleanupScheduled /\ ~cleanupScheduled') => ret'.op # "set"
       /\ ((HeadIs("count") \/ HeadIs("scan")) /\ queue' # queue)
            => ret'.op # "set"]_vars

\* A set has returned successfully while a pass is in progress and its
\* cleanup transaction has not run yet.
C14_Witness ==
    /\ ret.op = "set" /\ ret.err = "none"
    /\ cleanupInProgress
    /\ HeadIs("scan")

\* The pending transactions of eviction passes: every running pass has
\* exactly one, its count or its cleanup transaction.
PassTransactions == {i \in 1..Len(queue) : queue[i].op \in {"count", "scan"}}

\* C15: at most one eviction pass runs at any time, whatever the interleaving
\* of sets, timer callbacks and calls of cleanup(); a pass runs exactly while
\* the flag cleanupInProgress is set.
C15_OnePassAtATime ==
    /\ Cardinality(PassTransactions) <= 1
    /\ cleanupInProgress <=> PassTransactions # {}

\* A pass is running while the timer of another one is armed and a call of
\* cleanup() waits in its polling loop.
C15_Witness ==
    /\ cleanupInProgress
    /\ PassTransactions # {}
    /\ cleanupScheduled
    /\ cleanupPolls > 0

\* C16: a call of cleanup() made while a pass is running waits for the end of
\* that pass and then runs a pass of its own: it never returns from its wait
\* alone, without having counted the store.
C16_ManualCleanupRunsOwnPass == ret.cleanup # "waited"

C18_NoCollisionAcrossThemes ==
    \A i, j \in 1..Len(generated) :
        LET g == generated[i]
            h == generated[j]
        IN  /\ (g.content = h.content /\ g.type = h.type
                    /\ g.themeConfig # h.themeConfig) => g.key # h.key
            /\ (g.content # h.content /\ g.themeConfig.supplied
                    /\ ~h.themeConfig.supplied) => g.key # h.key

\* No get is waiting for its access-time update: no timer of a get is armed
\* and no update transaction is pending.
NoUpdatePending ==
    /\ touchTimers = << >>
    /\ \A i \in 1..Len(queue) : queue[i].op # "touch"

C20_StatsRespectLimit ==
    (ret.op = "stats" /\ ret.err = "none")
        => /\ ret.itemCount = Cardinality(DOMAIN store)
           /\ Len(ret.items) <= ret.limit
           /\ \A i, j \in 1..Len(ret.items) :
                i < j => store[ret.items[i]].accessTime
                            >= store[ret.items[j]].accessTime
           /\ \A k \in (DOMAIN store) \ SeqToSet(ret.items) :
                \A i \in 1..Len(ret.items) :
                    store[ret.items[i]].accessTime >= store[k].accessTime

\* C21: a render call fails only when its render request fails, never
\* because the cache failed, and a call that got a hit from the cache has
\* sent no render request.
C21_CacheIsOnlyAnOptimization ==
    /\ render.pc = "rejected" => render.result = "renderError"
    /\ render.result = "cached" => ~render.sent

\* C22: at most one timer of _scheduleAsyncCleanup is armed at any time, one
\* is armed exactly while cleanupScheduled is set, and a set that succeeds
\* while a timer is armed or a pass is running arms none.
C22_ScheduleCoalesces ==
    /\ [](Len(cleanupTimer) <= 1 /\ (cleanupScheduled <=> cleanupTimer # << >>))
    /\ [][(HeadIs("put") /\ ret'.op = "set" /\ ret'.err = "none"
                /\ (cleanupScheduled \/ cleanupInProgress))
            => /\ cleanupTimer' = cleanupTimer
               /\ cleanupScheduled' = cleanupScheduled]_vars

\* A set has succeeded while the timer armed by an earlier set was waiting:
\* still one timer is armed, the earlier one.
C22_Witness ==
    /\ ret.op = "set" /\ ret.err = "none"
    /\ cleanupScheduled
    /\ Len(cleanupTimer) = 1
    /\ ret.key \in DOMAIN store
    /\ store[ret.key].timestamp > cleanupTimer[1]

\* The keys that a step removes from the store.
Deleted == (DOMAIN store) \ (DOMAIN store')

\* What every successful cleanup transaction does, whatever the number of
\* keys it deletes: the deleted keys come first in the order of the scan,
\* they leave both tiers, and nothing else changes in either tier.
PassRemovesOldest ==
    /\ \A e \in Deleted : \A k \in DOMAIN store' : Before(store, e, k)
    /\ store' = MapDrop(store, Deleted)
    /\ memoryCache' = MapDrop(memoryCache, Deleted)
    /\ \A k \in DOMAIN memoryCache' : InSeq(memoryAccessOrder', k)

CountEnds ==
    /\ HeadIs("count")
    /\ queue' # queue
    /\ Len(queue') <= Len(queue)

\* C24: a pass that counts at most maxItems entries ends there: the flag
\* cleanupInProgress is reset, no cleanup transaction is opened, and both
\* tiers stay as they are.
C24_PassWithinBoundIsNoOp ==
    [][(CountEnds /\ Cardinality(DOMAIN store) <= maxItems)
            => /\ ~cleanupInProgress'
               /\ queue' = Tail(queue)
               /\ store' = store
               /\ memoryCache' = memoryCache
               /\ memoryAccessOrder' = memoryAccessOrder]_vars

\* A pass started by cleanup() has ended after its count, with the store
\* full and no pass in progress.
C24_Witness ==
    /\ ret.op = "cleanup" /\ ret.cleanup = "ran"
    /\ ~cleanupInProgress
    /\ Cardinality(DOMAIN store) = maxItems

\* C25: every pass ends: whenever cleanupInProgress is set it is reset
\* later, whether the pass evicts, finds nothing to evict, or fails in its
\* count or in its cleanup transaction.
C25_PassEnds == cleanupInProgress ~> ~cleanupInProgress

\* A pass awaited by cleanup() has failed and the flag is reset.
C25_Witness ==
    /\ ret.op = "cleanup" /\ ret.cleanup = "failed" /\ ret.err = "pass"
    /\ ~cleanupInProgress

\* C26: when a delete request of a pass fails, the other keys selected by
\* the pass are deleted from the store all the same, so at most one of the
\* selected keys is left there, and the flag cleanupInProgress is reset.
C26_DeleteFailureIsSkipped ==
    (ret.err = "pass" /\ ret.evicted # {})
        => /\ Cardinality({e \in ret.evicted : e.key \in DOMAIN store}) <= 1
           /\ ~cleanupInProgress

\* C27: a timer of _scheduleAsyncCleanup that fires while a pass is running
\* clears cleanupScheduled and does nothing else: it starts no pass, opens
\* no transaction and leaves both tiers as they are.
C27_TimerDuringPassAborts ==
    [][(cleanupTimer # << >> /\ cleanupTimer' = Tail(cleanupTimer)
                /\ cleanupInProgress)
            => /\ ~cleanupScheduled'
               /\ cleanupInProgress'
               /\ queue' = queue
               /\ store' = store
               /\ memoryCache' = memoryCache
               /\ memoryAccessOrder' = memoryAccessOrder]_vars

\* A pass started by cleanup() is running after a set had armed the timer,
\* and the timer has fired: no timer is armed, and the count of the manual
\* pass is the only transaction of a pass.
C27_Witness ==
    /\ cleanupInProgress /\ cleanupAwaited
    /\ ~cleanupScheduled /\ cleanupTimer = << >>
    /\ ret = NoRet
    /\ opsIssued = 2
    /\ queue = <<Tx("count", NoKey, Null, 0, 0)>>
    /\ recency # << >>

\* The key that this step puts into the memory tier or hits there, NoKey
\* when the step does neither: a get that returns a value (from memory in
\* the task of the call, or from the store), or the call of a set (with or
\* without a database).
UsedKey ==
    IF /\ ret'.op = "get" /\ ret'.err = "none" /\ ret'.val # Null
       /\ \/ opsIssued' = opsIssued + 1
          \/ HeadIs("get") /\ queue' = Tail(queue)
    THEN ret'.key
    ELSE IF /\ opsIssued' = opsIssued + 1
            /\ Len(queue') = Len(queue) + 1
            /\ queue'[Len(queue')].op = "put"
    THEN queue'[Len(queue')].key
    ELSE IF opsIssued' = opsIssued + 1 /\ ret'.op = "set" /\ ret'.err = "init"
    THEN ret'.key
    ELSE NoKey

\* The keys of a sequence that are in S, in their order.
RECURSIVE Restrict(_, _)
Restrict(order, S) ==
    IF order = << >> THEN << >>
    ELSE IF Head(order) \in S THEN <<Head(order)>> \o Restrict(Tail(order), S)
    ELSE Restrict(Tail(order), S)

\* A strict LRU list of capacity cap after a use of key k: k moves to the
\* end, and the oldest entries beyond the capacity are dropped.
LruAfterUse(order, k, cap) ==
    LET used == Append(Restrict(order, SeqToSet(order) \ {k}), k)
    IN  SubSeq(used, Max(Len(used) - cap, 0) + 1, Len(used))

\* C28: the memory tier is a strict LRU.  memoryAccessOrder lists its keys
\* from the least to the most recently used: a hit or a put of k moves k to
\* the end and, over the bound, drops the keys at the front, as few as the
\* bound needs; no other step changes the order of the keys that stay.
C28_MemoryIsStrictLru ==
    [][/\ IF UsedKey # NoKey
          THEN memoryAccessOrder'
                = LruAfterUse(memoryAccessOrder, UsedKey, memoryMaxItems)
          ELSE memoryAccessOrder'
                = Restrict(memoryAccessOrder, DOMAIN memoryCache')
       /\ DOMAIN memoryCache' = SeqToSet(memoryAccessOrder')
       /\ Len(memoryAccessOrder') = Cardinality(DOMAIN memoryCache')]_vars

\* A and B were set, A was read, and the set of C has evicted B, not A.
C28_Witness ==
    /\ memoryAccessOrder = <<"A", "C">>
    /\ recency = <<"B", "A">>
    /\ SetInFlight("C")
    /\ "B" \notin DOMAIN memoryCache

\* A get or set whose transaction was created after the cleanup transaction
\* of a running pass.  Transactions on the one store are served in the order
\* of their creation, and the pass resets cleanupInProgress in the task of
\* its last request, so this call completes only after the pass has
\* finished.
WaitsForPass ==
    \E i, j \in 1..Len(queue) :
        /\ i < j
        /\ queue[i].op = "scan"
        /\ queue[j].op \in {"get", "put"}

\* C29: get and set are never blocked by an eviction pass: whenever a pass
\* is Scheduled or Running, a get or set that starts can complete before
\* the pass finishes, so no started get or set has to wait for the pass.
C29_CallNeverWaitsForPass ==
    (cleanupScheduled \/ cleanupInProgress) => ~WaitsForPass

-----------------------------------------------------------------------------
(* The synchronous variant: src/src/cache-manager.js *)

MaxSyncOps == 3

SyncMaxItemsCfg == 3

SyncSetKeys == {"D", "E"}

SyncReadKeys == {"A"}

\* The stores an earlier session has left: three entries, or two.
SyncPersistedStores ==
    LET two == MapPut(MapPut(EmptyMap, "A", Item("v1", 0)), "B", Item("v1", 1))
    IN  {two, MapPut(two, "C", Item("v1", 2))}

InitSync ==
    /\ db = "open"
    /\ maxItems = SyncMaxItemsCfg
    /\ memoryMaxItems = BurstMemoryMaxItemsCfg
    /\ memoryCache = EmptyMap
    /\ memoryAccessOrder = << >>
    /\ store \in SyncPersistedStores
    /\ queue = << >>
    /\ touchTimers = << >>
    /\ cleanupTimer = << >>
    /\ cleanupScheduled = FALSE
    /\ cleanupInProgress = FALSE
    /\ cleanupPolls = 0
    /\ cleanupAwaited = FALSE
    /\ now = 2
    /\ opsIssued = 0
    /\ ret = NoRet
    /\ recency = << >>
    /\ generated = << >>
    /\ deletePromises = EmptyMap
    /\ pendingSets = {}
    /\ background = NoBackground
    /\ render = NoRender

\* set up to the count request of cleanupIfNeeded: the memory tier takes
\* the value, the item gets its times, and the readonly transaction of the
\* count is created.  n names the call.
SyncSet(k, v) ==
    LET m == AddToMemoryCache(L1, k, v, memoryMaxItems)
    IN  /\ opsIssued' = opsIssued + 1
        /\ memoryCache' = m.cache
        /\ memoryAccessOrder' = m.order
        /\ \E d \in {0, 1} : now' = now + d
        /\ queue' = Append(queue, Tx("syncCount", k, v, now', opsIssued'))
        /\ pendingSets' = pendingSets \cup {opsIssued'}
        /\ UNCHANGED <<config, background, deletePromises, render, generated, manual,
                       store, touchTimers, cleanupTimer, cleanupScheduled,
                       cleanupInProgress, ret, recency>>

\* if (itemCount >= this.maxItems)
SyncCleanupNeeded(itemCount) == itemCount >= maxItems

\* A cleanup that keeps maxItems entries (mutant).
SyncKeepAll(m) == m

\* Math.floor(this.maxItems * 0.8)
SyncKeep(m) == (8 * m) \div 10

\* The transaction that store.put(item) of the set named by tx will use.
SyncPutOf(tx) == Tx("put", tx.key, tx.val, tx.t, tx.n)

\* countRequest.onsuccess of cleanupIfNeeded: cleanup() opens its cursor
\* transaction, or the promise resolves and set creates its put transaction.
SyncCountExec ==
    /\ HeadIs("syncCount")
    /\ LET tx == Head(queue)
       IN  queue' = Append(Tail(queue),
                IF SyncCleanupNeeded(Cardinality(DOMAIN store))
                THEN Tx("syncCleanup", tx.key, tx.val, tx.t, tx.n)
                ELSE SyncPutOf(tx))
    /\ ret' = NoRet
    /\ UNCHANGED <<config, background, deletePromises, pendingSets, render, generated, manual,
                   memoryCache, memoryAccessOrder, store, touchTimers,
                   cleanupTimer, cleanupScheduled, cleanupInProgress, now,
                   opsIssued, recency>>

\* The end of the cursor of cleanup(): the items sorted by access time, and
\* this.delete(item.key) for the first itemsToDelete of them.  Each delete
\* removes its key from the memory tier at once and creates a transaction
\* of its own; with nothing to delete the set goes on to its put.
SyncCleanupExec ==
    /\ HeadIs("syncCleanup")
    /\ LET tx == Head(queue)
           items == ScanByAccessTime(store, DOMAIN store)
           itemsToDelete == IF Len(items) > SyncKeep(maxItems)
                            THEN Len(items) - SyncKeep(maxItems) ELSE 0
           selected == SubSeq(items, 1, itemsToDelete)
           m == RemoveEach(L1, selected)
       IN  /\ memoryCache' = m.cache
           /\ memoryAccessOrder' = m.order
           /\ ret' = [NoRet EXCEPT !.op = "syncCleanup", !.key = tx.key,
                                   !.itemCount = Len(items)]
           /\ IF itemsToDelete > 0
              THEN /\ queue' = Tail(queue) \o
                        [i \in 1..itemsToDelete |->
                            Tx("delete", selected[i], Null, 0, tx.n)]
                   /\ deletePromises' =
                        [n \in (DOMAIN deletePromises) \cup {tx.n} |->
                            IF n = tx.n
                            THEN [put |-> SyncPutOf(tx), selected |-> selected,
                                  left |-> itemsToDelete]
                            ELSE deletePromises[n]]
              ELSE /\ queue' = Append(Tail(queue), SyncPutOf(tx))
                   /\ UNCHANGED deletePromises
    /\ UNCHANGED <<config, background, pendingSets, render, generated, manual, store,
                   touchTimers, cleanupTimer, cleanupScheduled,
                   cleanupInProgress, now, opsIssued, recency>>

\* request.onsuccess of store.delete: of a delete called by the caller
\* (n = 0), or of one of the deletes of a cleanup; the last of these
\* resolves Promise.all, cleanup and cleanupIfNeeded, and set creates its
\* put transaction.  After a failed delete of the same cleanup Promise.all
\* has rejected already and nobody waits for the others.
SyncDeleteExec ==
    /\ HeadIs("delete")
    /\ LET tx == Head(queue)
       IN  /\ store' = MapDrop(store, {tx.key})
           /\ IF tx.n \notin DOMAIN deletePromises
              THEN /\ ret' = IF tx.n = 0
                             THEN Ret("delete", tx.key, Null, "none", TRUE)
                             ELSE NoRet
                   /\ queue' = Tail(queue)
                   /\ UNCHANGED deletePromises
              ELSE /\ ret' = [NoRet EXCEPT !.op = "syncDelete", !.key = tx.key]
                   /\ IF deletePromises[tx.n].left = 1
                      THEN /\ queue' = Append(Tail(queue),
                                             deletePromises[tx.n].put)
                           /\ deletePromises' =
                                [n \in (DOMAIN deletePromises) \ {tx.n} |->
                                    deletePromises[n]]
                      ELSE /\ queue' = Tail(queue)
                           /\ deletePromises' =
                                [deletePromises EXCEPT ![tx.n].left = @ - 1]
    /\ UNCHANGED <<config, background, pendingSets, render, generated, manual,
                   memoryCache, memoryAccessOrder, touchTimers, cleanupTimer,
                   cleanupScheduled, cleanupInProgress, now, opsIssued,
                   recency>>

\* request.onsuccess of store.put: the set resolves.
SyncPutSucceed ==
    /\ HeadIs("put")
    /\ LET tx == Head(queue)
       IN  /\ store' = MapPut(store, tx.key, Item(tx.val, tx.t))
           /\ ret' = Ret("set", tx.key, tx.val, "none", tx.clean)
           /\ recency' = Touch(recency, tx.key)
           /\ pendingSets' = pendingSets \ {tx.n}
    /\ queue' = Tail(queue)
    /\ UNCHANGED <<config, background, deletePromises, render, generated, manual,
                   memoryCache, memoryAccessOrder, touchTimers, cleanupTimer,
                   cleanupScheduled, cleanupInProgress, now, opsIssued>>

\* countRequest.onerror: cleanupIfNeeded rejects, and the catch block of set
\* removes the key from the memory tier and rethrows.
SyncCountFail ==
    /\ HeadIs("syncCount")
    /\ LET tx == Head(queue)
           m  == RemoveFromMemoryCache(L1, tx.key)
       IN  /\ memoryCache' = m.cache
           /\ memoryAccessOrder' = m.order
           /\ ret' = Ret("set", tx.key, tx.val, "count", tx.clean)
           /\ pendingSets' = pendingSets \ {tx.n}
    /\ queue' = Tail(queue)
    /\ UNCHANGED <<config, background, deletePromises, render, generated, manual, store,
                   touchTimers, cleanupTimer, cleanupScheduled,
                   cleanupInProgress, now, opsIssued, recency>>

\* request.onerror of the cursor: cleanup() rejects inside the async
\* countRequest.onsuccess handler, which has no catch: the rejection is
\* unhandled, resolve() is not reached and reject is never called, so the
\* promise of cleanupIfNeeded, and with it the set, stays pending.
SyncCleanupFail ==
    /\ HeadIs("syncCleanup")
    /\ ret' = [NoRet EXCEPT !.op = "syncCleanup", !.key = Head(queue).key,
                            !.err = "cursor"]
    /\ queue' = Tail(queue)
    /\ UNCHANGED <<config, background, deletePromises, pendingSets, render, generated,
                   manual, memoryCache, memoryAccessOrder, store, touchTimers,
                   cleanupTimer, cleanupScheduled, cleanupInProgress, now,
                   opsIssued, recency>>

\* request.onerror of store.delete.  A delete of the caller rejects; a
\* delete of a cleanup rejects Promise.all and cleanup(), again inside the
\* handler without catch: the set stays pending, and the other deletes of
\* the cleanup still run.
SyncDeleteFail ==
    /\ HeadIs("delete")
    /\ LET tx == Head(queue)
       IN  /\ ret' = IF tx.n = 0
                     THEN Ret("delete", tx.key, Null, "delete", TRUE)
                     ELSE [NoRet EXCEPT !.op = "syncDelete", !.key = tx.key,
                                        !.err = "delete"]
           /\ deletePromises' =
                [n \in (DOMAIN deletePromises) \ {tx.n} |-> deletePromises[n]]
    /\ queue' = Tail(queue)
    /\ UNCHANGED <<config, background, pendingSets, render, generated, manual,
                   memoryCache, memoryAccessOrder, store, touchTimers,
                   cleanupTimer, cleanupScheduled, cleanupInProgress, now,
                   opsIssued, recency>>

\* request.onerror, transaction.onerror or onabort of the put: the key
\* leaves the memory tier and the set rejects.
SyncPutFail ==
    /\ HeadIs("put")
    /\ LET tx == Head(queue)
           m  == PutFailedMemory(L1, tx.key)
       IN  /\ memoryCache' = m.cache
           /\ memoryAccessOrder' = m.order
           /\ ret' = Ret("set", tx.key, tx.val, "put", tx.clean)
           /\ pendingSets' = pendingSets \ {tx.n}
    /\ queue' = Tail(queue)
    /\ UNCHANGED <<config, background, deletePromises, render, generated, manual, store,
                   touchTimers, cleanupTimer, cleanupScheduled,
                   cleanupInProgress, now, opsIssued, recency>>

SyncCallSet ==
    \E k \in SyncSetKeys : opsIssued < MaxSyncOps /\ SyncSet(k, "v2")

SyncCallGet == \E k \in SyncReadKeys : opsIssued < MaxSyncOps /\ Get(k)

SyncCallDelete == \E k \in SyncReadKeys : opsIssued < MaxSyncOps /\ Delete(k)

NextSync ==
    \/ SyncCallSet
    \/ SyncCallGet
    \/ SyncCallDelete
    \/ SyncCountExec
    \/ SyncCleanupExec
    \/ SyncDeleteExec
    \/ SyncPutSucceed
    \/ GetExec
    \/ TouchTimerFire
    \/ TouchExec

SpecSync == InitSync /\ [][NextSync]_vars

\* A transaction of the synchronous variant is served, or fails.
SyncQueueStep ==
    \/ SyncCountExec
    \/ SyncCountFail
    \/ SyncCleanupExec
    \/ SyncCleanupFail
    \/ SyncDeleteExec
    \/ SyncDeleteFail
    \/ SyncPutSucceed
    \/ SyncPutFail
    \/ GetExec
    \/ TouchExec

NextSyncFail ==
    \/ SyncCallSet
    \/ SyncCallGet
    \/ SyncCallDelete
    \/ SyncQueueStep
    \/ TouchTimerFire

\* The synchronous variant with failing requests.  IndexedDB settles every
\* request, and every armed timer fires.
SpecSyncFail ==
    /\ InitSync
    /\ [][NextSyncFail]_vars
    /\ WF_vars(SyncQueueStep)
    /\ WF_vars(TouchTimerFire)

\* The steps of a set of the synchronous variant that serve the head of the
\* queue: its count, the cursor of its cleanup, one delete of its cleanup.
SyncServes(op) ==
    /\ HeadIs(op)
    /\ opsIssued' = opsIssued
    /\ touchTimers' = touchTimers
    /\ queue' # queue

\* The step after which the put of the set that owns the head of the queue
\* is the newest transaction: "its own write proceeds".
SyncWriteProceeds ==
    /\ queue' # << >>
    /\ queue'[Len(queue')].op = "put"
    /\ queue'[Len(queue')].n = Head(queue).n

\* The keys for which this step has created a delete transaction.
SyncNewDeletes ==
    {queue'[i].key : i \in {j \in Len(queue)..Len(queue') :
                                queue'[j].op = "delete"}}

\* The n entries of s accessed longest ago.
LeastRecentlyAccessed(s, n) ==
    {k \in DOMAIN s : Cardinality({y \in DOMAIN s : Before(s, y, k)}) < n}

\* What the count decides: below maxItems the set goes straight to its put
\* and nothing is evicted, at or above it cleanup() runs first.
SyncCountDecides ==
    SyncServes("syncCount") =>
        IF Cardinality(DOMAIN store) < maxItems
        THEN SyncWriteProceeds /\ store' = store /\ memoryCache' = memoryCache
        ELSE queue'[Len(queue')].op = "syncCleanup" /\ store' = store

\* C30 (as stated): in the synchronous variant a set that counts maxItems
\* entries or more evicts the least recently accessed entries, and when its
\* own put is created the store holds floor(0.8 * maxItems) entries; a set
\* that counts fewer evicts nothing.
C30_SyncSetEvictsToFloor ==
    [][/\ SyncCountDecides
       /\ /\ SyncServes("syncCleanup") \/ SyncServes("delete")
          /\ Head(queue).n > 0
          /\ SyncWriteProceeds
          => Cardinality(DOMAIN store') = (8 * maxItems) \div 10
       /\ /\ SyncServes("delete")
          /\ Head(queue).n > 0
          /\ Head(queue).key \in DOMAIN store
          => Head(queue).key \in LeastRecentlyAccessed(store, 1)]_vars

\* C30 (amended): a set that counts maxItems entries or more runs cleanup()
\* before its put; the cleanup selects the entries that its cursor finds
\* above floor(0.8 * maxItems), least recently accessed first by the access
\* times stored at that moment, removes them from the memory tier and
\* deletes each in a transaction of its own, and the put is created only
\* after the last of these deletes.  A set that counts fewer evicts nothing.
C30_SyncSetEvictsExcessOfCursor ==
    /\ [][/\ SyncCountDecides
          /\ SyncServes("syncCleanup") =>
                LET n == Cardinality(DOMAIN store)
                    keep == (8 * maxItems) \div 10
                    excess == IF n > keep THEN n - keep ELSE 0
                IN  /\ SyncNewDeletes = LeastRecentlyAccessed(store, excess)
                    /\ SyncNewDeletes \cap DOMAIN memoryCache' = {}
                    /\ store' = store
                    /\ SyncWriteProceeds <=> excess = 0
          /\ SyncServes("delete") =>
                Head(queue).key \notin DOMAIN store']_vars
    /\ [](\A i, j \in 1..Len(queue) :
            queue[i].op = "put" /\ queue[j].op = "delete" /\ queue[j].n > 0
                => queue[i].n # queue[j].n)

\* The put of a set that counted four entries is created after its cleanup
\* has deleted the two oldest, A and B.
C30_Witness ==
    /\ ret.op = "syncDelete"
    /\ queue # << >>
    /\ queue[Len(queue)].op = "put"
    /\ DOMAIN store = {"D", "E"} \/ DOMAIN store = {"C", "D"} \/ DOMAIN store = {"C", "E"}
    /\ DOMAIN deletePromises = {}

-----------------------------------------------------------------------------
(* core/background.js: the global cache manager and the cacheOperation
   messages *)

MaxMessages == 2

\* The cases of the switch, and an operation it does not know.
CacheOperations == {"get", "set", "clear", "getStats"}

Operations == CacheOperations \cup {"other"}

\* The rest of the state: the background actions below follow the cache
\* calls by their outcome only.
managerState ==
    <<config, deletePromises, pendingSets, generated, manual, memoryCache,
      memoryAccessOrder, store, queue, touchTimers, cleanupTimer,
      cleanupScheduled, cleanupInProgress, now, opsIssued, ret, recency,
      render>>

\* The script has been loaded: initGlobalCacheManager() was called and
\* awaits chrome.storage.local.get; globalCacheManager is null.
InitBackground ==
    /\ db = "open"
    /\ maxItems = BurstMaxItemsCfg
    /\ memoryMaxItems = BurstMemoryMaxItemsCfg
    /\ memoryCache = EmptyMap
    /\ memoryAccessOrder = << >>
    /\ store = EmptyMap
    /\ queue = << >>
    /\ touchTimers = << >>
    /\ cleanupTimer = << >>
    /\ cleanupScheduled = FALSE
    /\ cleanupInProgress = FALSE
    /\ cleanupPolls = 0
    /\ cleanupAwaited = FALSE
    /\ now = 0
    /\ opsIssued = 0
    /\ ret = NoRet
    /\ recency = << >>
    /\ generated = << >>
    /\ deletePromises = EmptyMap
    /\ pendingSets = {}
    /\ background = [NoBackground EXCEPT !.startup = "storage"]
    /\ render = NoRender

\* A message of type cacheOperation and the position of its handler.
Message(op, pc) ==
    [operation |-> op, pc |-> pc, manager |-> 0, responses |-> << >>]

SendResponse(m, r) ==
    [m EXCEPT !.pc = "done", !.responses = Append(@, r)]

\* A switch without its default case (mutant).
DispatchNoDefault(m, mgr) ==
    IF m.operation \in CacheOperations
    THEN [m EXCEPT !.pc = "op", !.manager = mgr]
    ELSE [m EXCEPT !.pc = "done"]

\* if (!globalCacheManager) { sendResponse({ error }); return; } and the
\* switch up to the await of the cache call.
Dispatch(m, mgr) ==
    IF mgr = 0 THEN SendResponse(m, "error")
    ELSE IF m.operation \in CacheOperations
    THEN [m EXCEPT !.pc = "op", !.manager = mgr]
    ELSE SendResponse(m, "error")

\* globalCacheManager = new ExtensionCacheManager(maxCacheItems): the
\* constructor starts initDB.
NewManager ==
    [background EXCEPT !.dbs = Append(@, "opening"),
                       !.globalCacheManager = Len(background.dbs) + 1]

\* The start-up call of initGlobalCacheManager after chrome.storage.local.get:
\* it constructs the manager, or storage has thrown and it returns null.
StartupStorageGet ==
    /\ background.startup = "storage"
    /\ \/ background' = [NewManager EXCEPT
                            !.startup = "initDB",
                            !.startupManager = Len(background.dbs) + 1]
       \/ background' = [background EXCEPT !.startup = "done"]
    /\ UNCHANGED managerState

\* The start-up call after await globalCacheManager.initDB().  Nobody reads
\* what it returns: after a failure globalCacheManager keeps the manager.
StartupInitDB ==
    /\ background.startup = "initDB"
    /\ \E outcome \in {"open", "failed"} :
        background' = [background EXCEPT
                         !.startup = "done",
                         !.dbs[background.startupManager] = outcome]
    /\ UNCHANGED managerState

\* The onMessage listener with a cacheOperation message, and
\* handleContentCacheOperation up to its first await.
OnMessage ==
    /\ Len(background.messages) < MaxMessages
    /\ \E op \in Operations :
        background' = [background EXCEPT !.messages = Append(@,
            IF background.globalCacheManager = 0
            THEN Message(op, "storage")
            ELSE Dispatch(Message(op, "start"),
                          background.globalCacheManager))]
    /\ UNCHANGED managerState

\* initGlobalCacheManager called by the handler of message i, after
\* chrome.storage.local.get: it constructs a manager, or returns null and
\* the handler assigns null and answers.
HandlerStorageGet(i) ==
    /\ background.messages[i].pc = "storage"
    /\ \/ background' = [NewManager EXCEPT
                            !.messages[i].pc = "initDB",
                            !.messages[i].manager = Len(background.dbs) + 1]
       \/ background' = [background EXCEPT
                            !.globalCacheManager = 0,
                            !.messages[i] = Dispatch(@, 0)]
    /\ UNCHANGED managerState

\* The same call after await globalCacheManager.initDB(): it returns the
\* value globalCacheManager has by then, or null after a failure; the
\* handler assigns what it gets and goes on.
HandlerInitDB(i) ==
    /\ background.messages[i].pc = "initDB"
    /\ \E outcome \in {"open", "failed"} :
        LET returned == IF outcome = "open"
                        THEN background.globalCacheManager ELSE 0
        IN  background' = [background EXCEPT
                !.dbs[background.messages[i].manager] = outcome,
                !.globalCacheManager = returned,
                !.messages[i] = Dispatch(@, returned)]
    /\ UNCHANGED managerState

\* What the awaited cache call of a manager can do once its initDB has
\* settled: a manager without database rejects (a get may still hit its
\* memory tier), one with a database resolves or rejects.
CallOutcomes(op, dbState) ==
    IF dbState = "failed"
    THEN {"rejected"} \cup (IF op = "get" THEN {"resolved"} ELSE {})
    ELSE {"resolved", "rejected"}

\* The cache call of message i settles: sendResponse in the case of the
\* switch, or in the catch block.
OpSettles(i) ==
    /\ background.messages[i].pc = "op"
    /\ LET m == background.messages[i]
       IN  /\ background.dbs[m.manager] # "opening"
           /\ \E outcome \in CallOutcomes(m.operation,
                                           background.dbs[m.manager]) :
                background' = [background EXCEPT !.messages[i] =
                    SendResponse(m,
                        IF outcome = "rejected" THEN "error"
                        ELSE IF m.operation \in {"get", "getStats"}
                        THEN "result" ELSE "success")]
    /\ UNCHANGED managerState

HandlerStep ==
    \E i \in 1..Len(background.messages) :
        HandlerStorageGet(i) \/ HandlerInitDB(i) \/ OpSettles(i)

NextBackground ==
    \/ StartupStorageGet
    \/ StartupInitDB
    \/ OnMessage
    \/ HandlerStep

\* chrome.storage, indexedDB.open and the cache calls settle.
SpecBackground ==
    /\ InitBackground
    /\ [][NextBackground]_vars
    /\ WF_vars(StartupStorageGet)
    /\ WF_vars(StartupInitDB)
    /\ WF_vars(HandlerStep)

\* C31: whenever no cache operation, access-time update or eviction pass is
\* in flight, every key of the memory tier is also in the store.
C31_NoOrphanedMemoryEntry ==
    Quiescent /\ db = "open" => DOMAIN memoryCache \subseteq DOMAIN store

\* The step that delivers the rejection of a set: the call itself when
\* ensureDB throws, or the failure of its put.
SetRejects ==
    /\ ret'.op = "set"
    /\ ret'.err # "none"
    /\ \/ opsIssued' = opsIssued + 1 /\ ret'.err = "init"
       \/ HeadIs("put") /\ queue' = Tail(queue) /\ ret'.err = "put"

\* C32: whenever set(k, v) rejects, for any cause, k is not in the memory
\* tier when the rejection is delivered.
C32_RejectedSetLeavesNoMemoryEntry ==
    [][SetRejects => ret'.key \notin DOMAIN memoryCache']_vars

\* C33: an eviction pass never takes the store below maxItems: whatever ran
\* between its count and its scan, the store after its deletions holds at
\* least min(maxItems, the entries at the start of the scan).
C33_PassKeepsMaxItems ==
    [][HeadIs("scan") =>
        Cardinality(DOMAIN store')
            >= Min(maxItems, Cardinality(DOMAIN store))]_vars

\* C34: the scheduler is in exactly one of Idle, Scheduled and Running:
\* cleanupScheduled and cleanupInProgress are never both set.
C34_FlagsExclusive == ~(cleanupScheduled /\ cleanupInProgress)

\* C35: updateAccessTime is a metadata-only write: its transaction creates
\* no entry and removes none, and changes nothing but the access time of
\* its key; value and creation timestamp of every entry stay as they were.
C35_UpdateIsMetadataOnly ==
    [][HeadIs("touch") =>
        /\ DOMAIN store' = DOMAIN store
        /\ \A k \in DOMAIN store :
            /\ store'[k].value = store[k].value
            /\ store'[k].timestamp = store[k].timestamp
            /\ k # Head(queue).key => store'[k] = store[k]]_vars

\* An update has refreshed the access time of an entry, and an update of a
\* key that is no longer in the store is about to run.
C35_Witness ==
    /\ HeadIs("touch")
    /\ Head(queue).key \notin DOMAIN store
    /\ \E k \in DOMAIN store : store[k].accessTime > store[k].timestamp

\* C36: in the synchronous variant every call of set eventually settles,
\* whichever of its count, cursor, delete and put requests fail.
C36_SyncSetSettles ==
    \A n \in 1..MaxSyncOps : (n \in pendingSets) ~> (n \notin pendingSets)

\* C37: in the synchronous variant (maxItems >= 1) the store never holds
\* more than maxItems entries when a set completes.
C37_SyncCountWithinMaxItems ==
    [][HeadIs("put") /\ store' # store =>
        Cardinality(DOMAIN store') <= maxItems]_vars

\* The managers that exist or are being initialized.
LiveManagers ==
    {n \in 1..Len(background.dbs) : background.dbs[n] # "failed"}

\* C38: the background process constructs at most one cache manager over
\* the store: no manager is constructed while one exists or is being
\* initialized.
C38_SingleCacheManager ==
    [][Len(background.dbs') > Len(background.dbs) => LiveManagers = {}]_vars

\* The answer a message may get: result for get and getStats, success for
\* set and clear, or an error.
ResponseFits(m, r) ==
    \/ r = "error"
    \/ r = "result" /\ m.operation \in {"get", "getStats"}
    \/ r = "success" /\ m.operation \in {"set", "clear"}

\* C39: every cacheOperation message gets exactly one response: never a
\* second one, a result or success only for the operation it belongs to,
\* an error for an unknown operation, and in the end each has its response.
C39_ExactlyOneResponse ==
    /\ [](\A i \in 1..Len(background.messages) :
            LET m == background.messages[i]
            IN  /\ Len(m.responses) <= 1
                /\ (m.pc = "done") = (Len(m.responses) = 1)
                /\ \A j \in 1..Len(m.responses) :
                    /\ ResponseFits(m, m.responses[j])
                    /\ m.operation \notin CacheOperations
                        => m.responses[j] = "error")
    /\ \A i \in 1..MaxMessages :
        (Len(background.messages) >= i)
            ~> (/\ Len(background.messages) >= i
                /\ Len(background.messages[i].responses) = 1)

\* One message was answered with an error after a failed initialization,
\* by its own call of initGlobalCacheManager; another with success.
C39_Witness ==
    \E i, j \in 1..Len(background.messages) :
        /\ background.messages[i].responses = <<"error">>
        /\ background.messages[i].operation \in CacheOperations
        /\ background.messages[i].manager # 0
        /\ background.dbs[background.messages[i].manager] = "failed"
        /\ background.messages[j].responses = <<"success">>

\* C40: memoryAccessOrder holds exactly the keys of memoryCache, each once,
\* so with the map over its limit the overflow loop of _addToMemoryCache
\* finds a key to shift.
C40_OrderMatchesMap ==
    /\ SeqToSet(memoryAccessOrder) = DOMAIN memoryCache
    /\ Len(memoryAccessOrder) = Cardinality(DOMAIN memoryCache)

\* The overflow loop has run: a and b were set, and the set of b has
\* shifted a out of a memory tier of one entry.
C40_Witness ==
    /\ memoryMaxItems = 1
    /\ SetInFlight("a")
    /\ SetInFlight("b")
    /\ memoryAccessOrder = <<"b">>
    /\ DOMAIN memoryCache = {"b"}

=============================================================================
